---- MODULE Spec2Model ----
(***************************************************************************)
(* Model of backend/wbprivate/sqlide/result_form_view.cpp: the form view   *)
(* of one recordset row (ResultFormView), its FieldView variants and the   *)
(* toolbar navigation over the recordset's edited row.                     *)
(*                                                                         *)
(* Strings whose content the code inspects (cell values, full column       *)
(* types, checklist labels) are sequences of one-character strings; type   *)
(* names and toolbar item names, which the code only compares for          *)
(* equality, are TLA+ strings.  Row and column indices are 0-based as in   *)
(* the code; TLA+ sequences are 1-based, hence the +1 at every access.     *)
(***************************************************************************)
EXTENDS Integers, Sequences, FiniteSets, TLC

VARIABLES
  recordsets,               \* the Recordset objects the editor session owns
  storage,                  \* Recordset_cdbc_storage::field_info() of each recordset
  rdbms_version,            \* SqlEditorForm::rdbms_version(), <<major, minor>>
  _editable,                \* ResultFormView::_editable
  _rset,                    \* ResultFormView::_rset, a weak reference
  _refresh_ui_connection,   \* ResultFormView::_refresh_ui_connection
  _fields,                  \* ResultFormView::_fields
  _label_item,              \* text of the "location" toolbar label
  _tbar,                    \* enabled state of the navigation toolbar items
  inits,                    \* number of init_for_resultset calls so far
  last                      \* the handler that ran last and the calls it made

vars == <<recordsets, storage, rdbms_version, _editable, _rset,
          _refresh_ui_connection, _fields, _label_item, _tbar, inits, last>>

\* ------------------------------------------------------------------ bounds

MaxRows == 3
MaxCols == 2
MaxItems == 2
MaxInits == 2

\* ----------------------------------------------------------------- strings

Range(s) == {s[i] : i \in DOMAIN s}

Min(a, b) == IF a < b THEN a ELSE b

Max(a, b) == IF a > b THEN a ELSE b

RECURSIVE Join(_, _)
\* The strings of list l joined by separator sep.
Join(l, sep) ==
  IF l = <<>> THEN <<>>
  ELSE IF Len(l) = 1 THEN l[1]
  ELSE l[1] \o sep \o Join(Tail(l), sep)

\* std::string::find(ch): the 0-based index of the first ch, -1 for npos.
Find(s, ch) ==
  IF \E i \in DOMAIN s : s[i] = ch
  THEN (CHOOSE i \in DOMAIN s : s[i] = ch /\ \A j \in 1..(i-1) : s[j] # ch) - 1
  ELSE -1

\* std::string::rfind(ch): the 0-based index of the last ch, -1 for npos.
RFind(s, ch) ==
  IF \E i \in DOMAIN s : s[i] = ch
  THEN (CHOOSE i \in DOMAIN s : s[i] = ch /\ \A j \in (i+1)..Len(s) : s[j] # ch) - 1
  ELSE -1

\* std::string::substr(pos, n) for 0 <= pos <= size.
SubStr(s, pos, n) == SubSeq(s, pos + 1, Min(pos + n, Len(s)))

RECURSIVE SplitFrom(_, _, _, _)
SplitFrom(s, sep, i, cur) ==
  IF i > Len(s) THEN <<cur>>
  ELSE IF s[i] = sep THEN <<cur>> \o SplitFrom(s, sep, i + 1, <<>>)
  ELSE SplitFrom(s, sep, i + 1, Append(cur, s[i]))

\* base::split_token_list(s, ','): the comma-separated parts of s.
split_token_list(s) == SplitFrom(s, ",", 1, <<>>)

RECURSIVE TokenizeFrom(_, _, _, _)
\* Scans s from i; cur is the token read so far, quoted whether a quote is open.
TokenizeFrom(s, i, cur, quoted) ==
  IF i > Len(s) THEN (IF cur = <<>> THEN <<>> ELSE <<cur>>)
  ELSE IF s[i] = "'" THEN TokenizeFrom(s, i + 1, Append(cur, s[i]), ~quoted)
  ELSE IF s[i] = "," /\ ~quoted
       THEN (IF cur = <<>> THEN <<>> ELSE <<cur>>) \o TokenizeFrom(s, i + 1, <<>>, FALSE)
  ELSE TokenizeFrom(s, i + 1, Append(cur, s[i]), quoted)

\* bec::tokenize_string_list(s, '\'', true, l): the quoted tokens of a
\* comma-separated list, quotes kept; a comma inside quotes does not separate.
tokenize_string_list(s) == TokenizeFrom(s, 1, <<>>, FALSE)

\* parse_enum_definition: the values between the first '(' and the last ')'.
parse_enum_definition(full_type) ==
  LET b == Find(full_type, "(")
      e == RFind(full_type, ")")
  IN IF b # -1 /\ e # -1 /\ e > b
     THEN LET l == tokenize_string_list(SubStr(full_type, b + 1, e - b - 1))
          IN [i \in DOMAIN l |-> SubStr(l[i], 1, Len(l[i]) - 2)]
     ELSE <<>>

\* What INFORMATION_SCHEMA.COLUMNS.COLUMN_TYPE holds for an ENUM or SET
\* column with the given member list, e.g. set('x','y').
ColumnTypeString(keyword, items) ==
  keyword \o <<"(">> \o Join([i \in DOMAIN items |-> <<"'">> \o items[i] \o <<"'">>], <<",">>)
          \o <<")">>

\* ------------------------------------------------------------- field views

None == "none"

\* What FieldView::create returns when it returns NULL.
NoFieldView == [kind |-> "NULL"]

\* The SQL NULL cell, distinct from every string.
NullCell == <<"NULL">>

TextBoxThreshold == 40

\* A FieldView: its variant, the column its callbacks are bound to, the
\* text its widget shows and, for the selector and the checklist, the items
\* (the checklist's rows carry the check mark of column 0).
FieldViewRec(kind, text, tree, expands) ==
  [kind |-> kind, column |-> -1, text |-> text, tree |-> tree, expands |-> expands]

StringFieldView(max_length) == FieldViewRec("String", <<>>, <<>>, max_length > 64)

TextFieldView == FieldViewRec("Text", <<>>, <<>>, TRUE)

BlobFieldView == FieldViewRec("Blob", <<"B", "L", "O", "B">>, <<>>, FALSE)

SelectorFieldView(items) ==
  FieldViewRec("Selector", <<>>, [i \in DOMAIN items |-> [checked |-> FALSE, label |-> items[i]]], FALSE)

SetFieldView(items) ==
  FieldViewRec("Set", <<>>, [i \in DOMAIN items |-> [checked |-> FALSE, label |-> items[i]]], FALSE)

\* FieldView::create without its last branch: an unknown type gets no view.
FieldView_create_NoFallback(field, full_type) ==
  IF field.type = "VARCHAR"
  THEN IF field.display_size > TextBoxThreshold
       THEN TextFieldView
       ELSE StringFieldView(field.display_size)
  ELSE IF field.type = "TEXT" THEN TextFieldView
  ELSE IF field.type = "BLOB" THEN BlobFieldView
  ELSE IF field.type = "ENUM" /\ full_type # <<>>
       THEN SelectorFieldView(parse_enum_definition(full_type))
  ELSE IF field.type = "SET" /\ full_type # <<>>
       THEN SetFieldView(parse_enum_definition(full_type))
  ELSE NoFieldView

\* FieldView::create: the variant for a column.
FieldView_create(field, full_type) ==
  IF field.type = "VARCHAR"
  THEN IF field.display_size > TextBoxThreshold
       THEN TextFieldView
       ELSE StringFieldView(field.display_size)
  ELSE IF field.type = "TEXT" THEN TextFieldView
  ELSE IF field.type = "BLOB" THEN BlobFieldView
  ELSE IF field.type = "ENUM" /\ full_type # <<>>
       THEN SelectorFieldView(parse_enum_definition(full_type))
  ELSE IF field.type = "SET" /\ full_type # <<>>
       THEN SetFieldView(parse_enum_definition(full_type))
  ELSE StringFieldView(field.display_size)

\* SetFieldView::set_value: a row is checked iff its label is in the list.
SetFieldView_set_value(tree, value) ==
  LET l == split_token_list(value)
  IN [i \in DOMAIN tree |-> [tree[i] EXCEPT !.checked = (tree[i].label \in Range(l))]]

RECURSIVE SetFieldView_scan(_, _, _)
\* The loop of SetFieldView::changed from row i on, value built so far.
SetFieldView_scan(tree, i, value) ==
  IF i > Len(tree) THEN value
  ELSE IF tree[i].checked
       THEN SetFieldView_scan(tree, i + 1,
                              (IF value # <<>> THEN value \o <<",">> ELSE value) \o tree[i].label)
  ELSE SetFieldView_scan(tree, i + 1, value)

\* SetFieldView::changed: the string handed to the change callback.
SetFieldView_changed(tree) == SetFieldView_scan(tree, 1, <<>>)

\* FieldView::set_value of each variant.
FieldView_set_value(fv, value, is_null) ==
  IF fv.kind = "Set" THEN [fv EXCEPT !.tree = SetFieldView_set_value(fv.tree, value)]
  ELSE IF fv.kind = "Blob"
       THEN [fv EXCEPT !.text = IF is_null THEN <<"N", "U", "L", "L">> ELSE <<"B", "L", "O", "B">>]
  ELSE [fv EXCEPT !.text = value]

\* changed() of the variants that call _change_callback (all but the blob
\* placeholder, whose changed() is empty): the callback's argument.
FieldView_changed(fv) ==
  IF fv.kind = "Set" THEN SetFieldView_changed(fv.tree) ELSE fv.text

\* --------------------------------------------------------------- recordset

Recordsets == {"rsA", "rsB"}

\* Recordset::count()
count(r) == Len(r.rows)

\* Whether (row, column) addresses a cell of r.
HasCell(r, row, column) ==
  /\ row >= 0 /\ row < count(r)
  /\ column >= 0 /\ column < Len(r.rows[row + 1])

\* Recordset::set_edited_field
set_edited_field(r, row, column) == [r EXCEPT !.row = row, !.col = column]

\* Recordset::set_field: writes the cell, when there is one.
set_field(r, row, column, value) ==
  IF HasCell(r, row, column) THEN [r EXCEPT !.rows[row + 1][column + 1] = value] ELSE r

\* Recordset::get_field_repr_no_truncate: the cell as a string; the value
\* is left empty when there is no such cell.
get_field_repr_no_truncate(r, row, column) ==
  IF HasCell(r, row, column) /\ r.rows[row + 1][column + 1] # NullCell
  THEN r.rows[row + 1][column + 1]
  ELSE <<>>

\* Recordset::is_field_null
is_field_null(r, row, column) ==
  IF HasCell(r, row, column) THEN r.rows[row + 1][column + 1] = NullCell ELSE TRUE

\* Recordset::delete_node: the row is removed; the edited row afterwards is
\* the recordset's choice, new_row.
delete_node(r, row, new_row) ==
  IF row >= 0 /\ row < count(r)
  THEN [r EXCEPT !.rows = SubSeq(r.rows, 1, row) \o SubSeq(r.rows, row + 2, Len(r.rows)),
                 !.row = new_row,
                 !.rows_deleted = TRUE]
  ELSE r

\* The edited rows a recordset may be left with after deleting row: the old
\* index (stale when the last row went) or the index clamped to the new count.
RowsAfterDelete(r, row) == {row, Min(row, count(r) - 2)}

\* boost::weak_ptr::lock: the recordset, or None when it has expired.
Lock(p) == IF p # None /\ recordsets[p].alive THEN p ELSE None

\* bec::is_supported_mysql_version_at_least(version, major, minor)
is_supported_mysql_version_at_least(version, major, minor) ==
  version[1] > major \/ (version[1] = major /\ version[2] >= minor)

\* ------------------------------------------------------------ the form view

ToolbarActions == {"first", "back", "next", "last", "delete"}

QueryOutcomes == {"throws", "null", "norow", "row"}

Call(name, args) == <<name>> \o args

\* What the last handler was and did: name is the toolbar item or the
\* recordset it was given, column and value the arguments of update_value or
\* open_field_editor (for init_for_resultset, value lists what the metadata
\* query of each column does), calls lists, in order, the calls it made on
\* the recordset, the editor's connection and the panel, and completed is
\* FALSE when an exception left it.
Last(op, name, column, value, calls, completed) ==
  [op |-> op, name |-> name, column |-> column, value |-> value,
   calls |-> calls, completed |-> completed]

\* get_full_column_type with no try/catch around the query.
get_full_column_type_NoCatch(version, field, outcome) ==
  IF is_supported_mysql_version_at_least(version, 5, 5)
  THEN IF outcome = "throws"
       THEN [result |-> <<>>, queries |-> 1, raised |-> TRUE]
       ELSE IF outcome = "row"
            THEN [result |-> field.column_type, queries |-> 1, raised |-> FALSE]
            ELSE [result |-> <<>>, queries |-> 1, raised |-> FALSE]
  ELSE [result |-> <<>>, queries |-> 0, raised |-> FALSE]

\* get_full_column_type: the COLUMN_TYPE the server reports, or "" when the
\* server is older than 5.5, the query throws or it returns nothing.
\* outcome is what executeQuery does; raised tells whether an exception
\* leaves the function.
get_full_column_type(version, field, outcome) ==
  IF is_supported_mysql_version_at_least(version, 5, 5)
  THEN IF outcome = "row"
       THEN [result |-> field.column_type, queries |-> 1, raised |-> FALSE]
       ELSE [result |-> <<>>, queries |-> 1, raised |-> FALSE]
  ELSE [result |-> <<>>, queries |-> 0, raised |-> FALSE]

RECURSIVE BuildFields(_, _, _, _, _)
\* The loop of init_for_resultset over field_info from index i (0-based):
\* acc.fields is _fields so far, acc.queries the metadata queries issued,
\* acc.completed is FALSE once an exception has left the loop.
BuildFields(version, infos, outcomes, i, acc) ==
  IF i >= Len(infos) THEN acc
  ELSE
    LET info == infos[i + 1]
        needs == (info.type = "ENUM" \/ info.type = "SET") /\ info.table # <<>>
        full == IF needs THEN get_full_column_type(version, info, outcomes[i + 1])
                ELSE [result |-> <<>>, queries |-> 0, raised |-> FALSE]
        fview == FieldView_create(info, full.result)
    IN IF full.raised
       THEN [acc EXCEPT !.queries = acc.queries + full.queries, !.completed = FALSE]
       ELSE BuildFields(version, infos, outcomes, i + 1,
              [acc EXCEPT !.queries = acc.queries + full.queries,
                          !.fields = IF fview.kind # "NULL"
                                     THEN Append(acc.fields, [fview EXCEPT !.column = i])
                                     ELSE acc.fields])

\* display_record always showing row 0.
DisplayFields_FirstRow(fields, r) ==
  [i \in DOMAIN fields |->
     FieldView_set_value(fields[i],
                         get_field_repr_no_truncate(r, 0, i - 1),
                         is_field_null(r, 0, i - 1))]

\* The loop of display_record: every FieldView i is given the value of
\* column i of the edited row.
DisplayFields(fields, r) ==
  [i \in DOMAIN fields |->
     FieldView_set_value(fields[i],
                         get_field_repr_no_truncate(r, r.row, i - 1),
                         is_field_null(r, r.row, i - 1))]

\* base::strfmt("%i / %i", row + 1, count), kept as its two numbers.
LabelText(r) == <<r.row + 1, count(r)>>

\* The enabled state display_record gives the four navigation items.
ToolbarState(r) ==
  [first |-> r.row > 0, back |-> r.row > 0,
   next |-> r.row < count(r) - 1, last |-> r.row < count(r) - 1]

\* display_record as a step of another handler, r being the bound recordset.
Redisplay(r) ==
  /\ _fields' = DisplayFields(_fields, r)
  /\ _label_item' = LabelText(r)
  /\ _tbar' = ToolbarState(r)

\* The row 'next' moves to when it does not clamp at the last row.
NavigateRow_NoClamp(name, row, n) ==
  IF name = "back" THEN (IF row - 1 < 0 THEN 0 ELSE row - 1)
  ELSE IF name = "first" THEN 0
  ELSE IF name = "next" THEN row + 1
  ELSE n - 1

\* navigate: the row each of back, first, next and last moves to from row
\* in a recordset of n rows.
NavigateRow(name, row, n) ==
  IF name = "back" THEN (IF row - 1 < 0 THEN 0 ELSE row - 1)
  ELSE IF name = "first" THEN 0
  ELSE IF name = "next" THEN (IF row + 1 >= n THEN n - 1 ELSE row + 1)
  ELSE n - 1

\* A navigation branch that re-anchors the edited field at column 0.
MoveTo_ResetColumn(r, row) ==
  [rset |-> set_edited_field(r, row, 0),
   calls |-> << Call("set_edited_field", <<row, 0>>) >>
             \o (IF r.hook THEN << Call("update_edited_field", <<>>) >> ELSE <<>>)]

\* What each of the back, first, next and last branches of navigate does
\* once it has computed row: set_edited_field at the edited column, then
\* the update_edited_field hook when it is set.
MoveTo(r, row) ==
  [rset |-> set_edited_field(r, row, r.col),
   calls |-> << Call("set_edited_field", <<row, r.col>>) >>
             \o (IF r.hook THEN << Call("update_edited_field", <<>>) >> ELSE <<>>)]

Unbound == UNCHANGED <<recordsets, _fields, _label_item, _tbar>>

Fixed == UNCHANGED <<storage, rdbms_version, _editable, _refresh_ui_connection>>

\* ResultFormView::navigate, run by the toolbar item called name.
navigate(name) ==
  /\ name = "delete" => _editable
  /\ LET rs == Lock(_rset) IN
       IF rs = None
       THEN /\ Unbound
            /\ last' = Last("navigate", name, -1, <<>>, <<>>, TRUE)
       ELSE LET r == recordsets[rs]
                row == r.row
            IN IF row < 0
               THEN /\ Unbound
                    /\ last' = Last("navigate", name, -1, <<>>, <<>>, TRUE)
               ELSE IF name = "delete"
               THEN \E new_row \in RowsAfterDelete(r, row) :
                      LET r2 == delete_node(r, row, new_row) IN
                        /\ recordsets' = [recordsets EXCEPT ![rs] = r2]
                        /\ Redisplay(r2)
                        /\ last' = Last("navigate", name, -1, <<>>,
                                        << Call("delete_node", <<row>>),
                                           Call("display_record", <<>>) >>, TRUE)
               ELSE LET m == MoveTo(r, NavigateRow(name, row, count(r)))
                    IN /\ recordsets' = [recordsets EXCEPT ![rs] = m.rset]
                       /\ Redisplay(m.rset)
                       /\ last' = Last("navigate", name, -1, <<>>,
                                       m.calls \o << Call("display_record", <<>>) >>, TRUE)
  /\ UNCHANGED <<_rset, inits>>
  /\ Fixed

\* update_value with the row guard dropped.
update_value_NoGuard(r, column, value) ==
  [rset |-> set_field(r, r.row, column, value),
   calls |-> << Call("set_field", <<r.row, column, value>>) >>]

\* ResultFormView::update_value on the locked recordset r: the recordset
\* afterwards and the calls made.
update_value(r, column, value) ==
  IF count(r) > r.row /\ r.row >= 0
  THEN [rset |-> set_field(r, r.row, column, value),
        calls |-> << Call("set_field", <<r.row, column, value>>) >>]
  ELSE [rset |-> r, calls |-> <<>>]

\* ResultFormView::open_field_editor on the locked recordset r: the calls made.
open_field_editor(r, column) ==
  IF r.row < count(r) /\ r.row >= 0
  THEN << Call("open_field_data_editor", <<r.row, column>>) >>
  ELSE <<>>

\* _change_callback(value) of FieldView i: update_value(column, value) with
\* the column bound at creation.
ChangeCallback(op, i, value) ==
  LET rs == Lock(_rset) IN
    IF rs = None
    THEN /\ UNCHANGED recordsets
         /\ last' = Last(op, "", _fields[i].column, value, <<>>, TRUE)
    ELSE LET u == update_value(recordsets[rs], _fields[i].column, value) IN
           /\ recordsets' = [recordsets EXCEPT ![rs] = u.rset]
           /\ last' = Last(op, "", _fields[i].column, value, u.calls, TRUE)

\* The changed() handler of FieldView i fires on the widget's content as it is.
changed(i) ==
  /\ i \in DOMAIN _fields
  /\ _fields[i].kind # "Blob"
  /\ ChangeCallback("changed", i, FieldView_changed(_fields[i]))
  /\ UNCHANGED <<_rset, _fields, _label_item, _tbar, inits>>
  /\ Fixed

\* What the user types into an entry or a text box.
EditValues == {<<"z">>}

\* The member names an ENUM or SET column may declare.
Labels == {<<>>, <<"x">>, <<"y">>}

\* The user types value into entry or text box i, or picks it in selector i;
\* the widget's change signal then runs changed().
UserEdit(i, value) ==
  /\ _editable
  /\ i \in DOMAIN _fields
  /\ _fields[i].kind \in {"String", "Text", "Selector"}
  /\ value \in (IF _fields[i].kind = "Selector"
                THEN {_fields[i].tree[n].label : n \in DOMAIN _fields[i].tree}
                ELSE EditValues)
  /\ _fields' = [_fields EXCEPT ![i].text = value]
  /\ ChangeCallback("edit", i, FieldView_changed(_fields'[i]))
  /\ UNCHANGED <<_rset, _label_item, _tbar, inits>>
  /\ Fixed

\* The user toggles row n of checklist i; the tree's change signal then
\* runs SetFieldView::changed.
UserToggle(i, n) ==
  /\ _editable
  /\ i \in DOMAIN _fields
  /\ _fields[i].kind = "Set"
  /\ n \in DOMAIN _fields[i].tree
  /\ _fields' = [_fields EXCEPT ![i].tree[n].checked = ~@]
  /\ ChangeCallback("toggle", i, FieldView_changed(_fields'[i]))
  /\ UNCHANGED <<_rset, _label_item, _tbar, inits>>
  /\ Fixed

\* The "View..." button of blob placeholder i runs open_field_editor(column).
ViewBlob(i) ==
  /\ i \in DOMAIN _fields
  /\ _fields[i].kind = "Blob"
  /\ LET rs == Lock(_rset) IN
       last' = Last("open_field_editor", "", _fields[i].column, <<>>,
                    IF rs = None THEN <<>>
                    ELSE open_field_editor(recordsets[rs], _fields[i].column), TRUE)
  /\ UNCHANGED <<recordsets, _rset, _fields, _label_item, _tbar, inits>>
  /\ Fixed

\* display_record using the recordset without checking that lock() gave one.
DisplayBody_NoCheck ==
  IF _rset = None
  THEN UNCHANGED <<_fields, _label_item, _tbar>>
  ELSE Redisplay(recordsets[_rset])

\* The body of ResultFormView::display_record.
DisplayBody ==
  LET rs == Lock(_rset) IN
    IF rs = None
    THEN UNCHANGED <<_fields, _label_item, _tbar>>
    ELSE Redisplay(recordsets[rs])

\* ResultFormView::display_record, called by the panel's owner.
display_record ==
  /\ DisplayBody
  /\ last' = Last("display_record", "", -1, <<>>, <<>>, TRUE)
  /\ UNCHANGED <<recordsets, _rset, inits>>
  /\ Fixed

\* Recordset rs emits refresh_ui_signal: every connection made by
\* init_for_resultset runs display_record on the panel.
refresh_ui(rs) ==
  /\ recordsets[rs].alive
  /\ recordsets[rs].subs > 0
  /\ DisplayBody
  /\ last' = Last("refresh_ui", rs, -1, <<>>,
                  [k \in 1..recordsets[rs].subs |-> Call("display_record", <<>>)], TRUE)
  /\ UNCHANGED <<recordsets, _rset, inits>>
  /\ Fixed

\* init_for_resultset never selecting a row.
SelectsFirstRow_Never(r) == FALSE

\* Whether init_for_resultset selects row 0: no row is edited and there is one.
SelectsFirstRow(r) == r.row < 0 /\ count(r) > 0

\* boost::signals2::connection::disconnect on the panel's stored connection:
\* removes it from its signal; an empty connection disconnects nothing.
disconnect(connection, rsets) ==
  IF connection = None THEN rsets
  ELSE [rsets EXCEPT ![connection].subs = Max(@ - 1, 0)]

\* ResultFormView::init_for_resultset(rset_ptr, editor); outcomes[c] is what
\* the metadata query for column c does, should it be issued.
init_for_resultset(rset_ptr, outcomes) ==
  /\ inits < MaxInits
  /\ inits' = inits + 1
  /\ _rset' = rset_ptr
  /\ IF ~recordsets[rset_ptr].alive
     THEN /\ Unbound
          /\ last' = Last("init_for_resultset", rset_ptr, -1, outcomes, <<>>, TRUE)
     ELSE LET r0 == disconnect(_refresh_ui_connection, recordsets)[rset_ptr]
              r1 == [r0 EXCEPT !.subs = @ + 1]
              select == SelectsFirstRow(r1)
              r2 == IF select THEN set_edited_field(r1, 0, 0) ELSE r1
              built == BuildFields(rdbms_version, storage[rset_ptr], outcomes, 0,
                                   [fields |-> _fields, queries |-> 0, completed |-> TRUE])
          IN /\ recordsets' = [disconnect(_refresh_ui_connection, recordsets)
                                 EXCEPT ![rset_ptr] = r2]
             /\ _fields' = built.fields
             /\ last' = Last("init_for_resultset", rset_ptr, -1, outcomes,
                             << Call("connect", <<>>) >>
                             \o (IF select
                                 THEN << Call("set_edited_field", <<0, 0>>) >>
                                      \o (IF r1.hook
                                          THEN << Call("update_edited_field", <<>>) >>
                                          ELSE <<>>)
                                 ELSE <<>>)
                             \o [k \in 1..built.queries |-> Call("executeQuery", <<>>)],
                             built.completed)
             /\ UNCHANGED <<_label_item, _tbar>>
  /\ Fixed

\* A destroyed recordset: nothing of it can be observed any more.
Expired == [alive |-> FALSE, rows |-> <<>>, row |-> -1, col |-> -1, hook |-> FALSE,
            subs |-> 0, rows_deleted |-> FALSE]

\* The editor session drops recordset rs: weak references to it expire and
\* its signal goes with it.
Expire(rs) ==
  /\ recordsets[rs].alive
  /\ recordsets' = [recordsets EXCEPT ![rs] = Expired]
  /\ last' = Last("expire", rs, -1, <<>>, <<>>, TRUE)
  /\ UNCHANGED <<_rset, _fields, _label_item, _tbar, inits>>
  /\ Fixed

\* init_for_resultset on a panel that has not been initialized yet.
FirstInit(rset_ptr, outcomes) ==
  /\ inits = 0
  /\ init_for_resultset(rset_ptr, outcomes)

\* A panel initialized once, over recordsets of text and blob columns.
Next ==
  \/ \E rs \in Recordsets : \E outcomes \in [1..Len(storage[rs]) -> QueryOutcomes] :
       FirstInit(rs, outcomes)
  \/ \E name \in ToolbarActions : navigate(name)
  \/ \E i \in 1..MaxCols : changed(i)
  \/ \E i \in 1..MaxCols, value \in EditValues : UserEdit(i, value)
  \/ \E i \in 1..MaxCols : ViewBlob(i)
  \/ display_record
  \/ \E rs \in Recordsets : refresh_ui(rs)
  \/ \E rs \in Recordsets : Expire(rs)

\* A panel initialized again and again, nothing being edited.
NextReinit ==
  \/ \E rs \in Recordsets : \E outcomes \in [1..Len(storage[rs]) -> QueryOutcomes] :
       init_for_resultset(rs, outcomes)
  \/ \E name \in ToolbarActions \ {"delete"} : navigate(name)
  \/ display_record
  \/ \E rs \in Recordsets : refresh_ui(rs)
  \/ \E rs \in Recordsets : Expire(rs)

\* A panel over one live recordset of one row and one column of any type.
NextField ==
  \/ \E outcomes \in [1..Len(storage["rsA"]) -> QueryOutcomes] : FirstInit("rsA", outcomes)
  \/ display_record
  \/ changed(1)
  \/ \E value \in EditValues \cup Labels : UserEdit(1, value)
  \/ \E n \in 1..MaxItems : UserToggle(1, n)
  \/ ViewBlob(1)

\* ------------------------------------------------------------ initial states

\* A Recordset_cdbc_storage::FieldInfo, with the COLUMN_TYPE the server
\* holds for the column.
FieldInfo(type, display_size, table, column_type) ==
  [type |-> type, display_size |-> display_size, table |-> table, column_type |-> column_type]

\* Columns from..(from + n - 1) of a table of one VARCHAR(20) column
\* followed by BLOB columns.
ColumnsFrom(from, n) ==
  [i \in 1..n |-> IF from + i - 1 = 1 THEN FieldInfo("VARCHAR", 20, <<"t">>, <<>>)
                  ELSE FieldInfo("BLOB", 20, <<"t">>, <<>>)]

Letters == <<"a", "b", "c", "d", "e">>

\* n rows of ncols cells, each cell differing from its neighbours.
InitRows(n, ncols) ==
  [r \in 1..n |-> [c \in 1..ncols |-> <<Letters[((r + c) % Len(Letters)) + 1]>>]]

\* A recordset as the editor hands it over: no row edited yet, or the field
\* the user last edited in the grid.
NewRecordset(rows, row, col, hook) ==
  [alive |-> TRUE, rows |-> rows, row |-> row, col |-> col, hook |-> hook,
   subs |-> 0, rows_deleted |-> FALSE]

\* The recordsets of ncols columns: any number of rows, with or without the
\* update_edited_field hook; untouched, or with some field edited.
RecordsetsOver(ncols) ==
  { NewRecordset(InitRows(n, ncols), e[1], e[2], hook) :
      n \in 0..MaxRows, e \in ((-1)..(MaxRows - 1)) \X ((-1)..(ncols - 1)), hook \in BOOLEAN }

WellFormed(r) ==
  \/ r.row = -1 /\ r.col = -1
  \/ r.row >= 0 /\ r.row < count(r) /\ r.col >= 0

PanelInit(editable) ==
  /\ _editable \in editable
  /\ _rset = None
  /\ _refresh_ui_connection = None
  /\ _fields = <<>>
  /\ _label_item = <<>>
  /\ _tbar = [first |-> TRUE, back |-> TRUE, next |-> TRUE, last |-> TRUE]
  /\ inits = 0
  /\ last = Last("new", "", -1, <<>>, <<>>, TRUE)

Init ==
  /\ storage = [rs \in Recordsets |->
                  IF rs = "rsA" THEN ColumnsFrom(1, MaxCols) ELSE ColumnsFrom(2, 1)]
  /\ rdbms_version = <<5, 6>>
  /\ \E a \in RecordsetsOver(MaxCols) :
       /\ WellFormed(a)
       /\ recordsets = [rs \in Recordsets |->
            IF rs = "rsA" THEN a
            ELSE NewRecordset(InitRows(1, 1), -1, -1, FALSE)]
  /\ PanelInit(BOOLEAN)

Spec == Init /\ [][Next]_vars

SpecReinit == Init /\ [][NextReinit]_vars

\* ------------------------------------------- one column under every type

Types == {"VARCHAR", "TEXT", "BLOB", "ENUM", "SET", "INT", "varchar"}

DisplaySizes == {20, 40, 41, 65, 1001}

Versions == {<<5, 1>>, <<5, 5>>, <<8, 0>>}

ItemLists == UNION {[1..n -> Labels] : n \in 1..MaxItems}

Keyword(type) == IF type = "ENUM" THEN <<"e", "n", "u", "m">> ELSE <<"s", "e", "t">>

FieldInfos ==
  {FieldInfo("VARCHAR", d, <<"t">>, <<>>) : d \in DisplaySizes}
  \cup {FieldInfo(t, 20, <<"t">>, <<>>) : t \in {"TEXT", "BLOB", "INT", "varchar"}}
  \cup {FieldInfo(t, 1, tb, ColumnTypeString(Keyword(t), items)) :
          t \in {"ENUM", "SET"}, tb \in {<<>>, <<"t">>}, items \in ItemLists}
  \cup {FieldInfo(t, 1, <<"t">>, <<>>) : t \in {"ENUM", "SET"}}

\* The ways of picking some of the items, each at most once, in any order.
Picks(items) ==
  {p \in UNION {[1..k -> DOMAIN items] : k \in 0..Len(items)} :
     \A a, b \in DOMAIN p : a # b => p[a] # p[b]}

\* The values a SET column with these members can hold: the members of a
\* subset, comma-joined in any order.
SetValues(items) == {Join([a \in DOMAIN p |-> items[p[a]]], <<",">>) : p \in Picks(items)}

CellValues(info) ==
  IF info.type = "SET" THEN SetValues(parse_enum_definition(info.column_type))
  ELSE {<<"x">>, NullCell}

InitField ==
  /\ \E info \in FieldInfos, cell \in UNION {CellValues(f) : f \in FieldInfos} :
       /\ cell \in CellValues(info)
       /\ storage = [rs \in Recordsets |-> IF rs = "rsA" THEN <<info>> ELSE <<>>]
       /\ recordsets = [rs \in Recordsets |->
            IF rs = "rsA" THEN NewRecordset(<< <<cell>> >>, -1, -1, TRUE)
            ELSE Expired]
  /\ rdbms_version \in Versions
  /\ PanelInit({TRUE})

SpecField == InitField /\ [][NextField]_vars

\* -------------------------------------------------------------------- claims

MoveActions == {"first", "back", "next", "last"}

\* The handler named op has just run with a live recordset bound.
RanLive(op) == last.op = op /\ Lock(_rset) # None

\* C1: with a live recordset of at least one row bound and the edited row r
\* within [0, rowCount), navigate moves the edited row to 0 for first, to
\* max(r-1, 0) for back, to min(r+1, rowCount-1) for next and to rowCount-1
\* for last; so back at row 0 and next at the last row leave the row where
\* it is, and a second first (or last) would not move it again.
C1_NavigateRow ==
  [][\A name \in MoveActions :
       (/\ last'.op = "navigate" /\ last'.name = name
        /\ Lock(_rset) # None
        /\ count(recordsets[_rset]) >= 1
        /\ recordsets[_rset].row >= 0
        /\ recordsets[_rset].row < count(recordsets[_rset]))
       => LET r == recordsets[_rset]
              row2 == recordsets'[_rset].row
              n == count(r)
          IN /\ name = "first" => row2 = 0
             /\ name = "back" => row2 = Max(r.row - 1, 0)
             /\ name = "next" => row2 = Min(r.row + 1, n - 1)
             /\ name = "last" => row2 = n - 1
             /\ (name = "back" /\ r.row = 0) => row2 = r.row
             /\ (name = "next" /\ r.row = n - 1) => row2 = r.row
             /\ name \in {"first", "last"} =>
                  NavigateRow(name, row2, count(recordsets'[_rset])) = row2]_vars

\* next has run at the last row of a recordset of several rows and left the
\* edited row there.
C1_Witness ==
  /\ RanLive("navigate") /\ last.name = "next"
  /\ count(recordsets[_rset]) >= 2
  /\ recordsets[_rset].row = count(recordsets[_rset]) - 1
  /\ last.calls[1] = Call("set_edited_field",
                          <<count(recordsets[_rset]) - 1, recordsets[_rset].col>>)
  /\ _label_item = <<count(recordsets[_rset]), count(recordsets[_rset])>>

\* C2: once init_for_resultset has run on a recordset whose row count stays
\* fixed, whatever first/back/next/last actions follow, the edited row is -1
\* or within [0, rowCount): within [0, rowCount) when there is a row, -1
\* when there is none.  (Before init the edited row may be -1 with rows.)
C2_EditedRowInRange ==
  \A rs \in Recordsets :
    LET r == recordsets[rs] IN
      (r.alive /\ ~r.rows_deleted) =>
        /\ r.row = -1 \/ (r.row >= 0 /\ r.row < count(r))
        /\ r.subs > 0 =>
             /\ count(r) >= 1 => (r.row >= 0 /\ r.row < count(r))
             /\ count(r) = 0 => r.row = -1

\* init_for_resultset has selected row 0 of a recordset that had rows and no
\* edited row.
C2_Witness ==
  /\ RanLive("init_for_resultset")
  /\ Call("set_edited_field", <<0, 0>>) \in Range(last.calls)
  /\ recordsets[_rset].row = 0
  /\ count(recordsets[_rset]) >= 2
  /\ ~recordsets[_rset].rows_deleted

\* C4: when the weak reference yields no recordset (expired, or none ever
\* bound), navigate for any toolbar item, update_value (run by a field's
\* changed()), open_field_editor and display_record (called directly or by
\* another recordset's refresh signal) change no recordset, no FieldView, not
\* the position label and no toolbar item, and call nothing.
C4_NoRecordsetNoEffect ==
  [][(/\ Lock(_rset) = None
      /\ last'.op \in {"navigate", "changed", "open_field_editor",
                       "display_record", "refresh_ui"})
     => /\ UNCHANGED <<recordsets, _fields, _label_item, _tbar>>
        /\ last'.op # "refresh_ui" => last'.calls = <<>>]_vars

\* A field's changed() has run update_value after the bound recordset expired.
C4_Witness ==
  /\ last.op = "changed"
  /\ _rset # None /\ ~recordsets[_rset].alive
  /\ last.value # <<>>
  /\ last.calls = <<>>

\* The cells of recordset r2 are those of r but for (row, column), which
\* holds value.
OnlyCellChanged(r, r2, row, column, value) ==
  /\ Len(r2.rows) = Len(r.rows)
  /\ \A i \in DOMAIN r.rows :
       /\ Len(r2.rows[i]) = Len(r.rows[i])
       /\ \A j \in DOMAIN r.rows[i] :
            r2.rows[i][j] = IF i = row + 1 /\ j = column + 1 THEN value ELSE r.rows[i][j]

\* C5: with the edited row within [0, rowCount), update_value(column, value)
\* calls set_field(row, column, value) and nothing else: that cell holds
\* value, every other cell, the edited row and the edited column are as
\* before.  With the edited row -1 or >= rowCount, update_value and
\* open_field_editor change nothing and call neither a setter nor the editor.
C5_UpdateValueFrame ==
  [][(Lock(_rset) # None /\ last'.op \in {"changed", "edit", "open_field_editor"})
     => LET r == recordsets[_rset]
            r2 == recordsets'[_rset]
            inside == r.row >= 0 /\ r.row < count(r)
        IN /\ \A rs \in Recordsets \ {_rset} : recordsets'[rs] = recordsets[rs]
           /\ (last'.op # "open_field_editor" /\ inside) =>
                /\ last'.calls = << <<"set_field", r.row, last'.column, last'.value>> >>
                /\ OnlyCellChanged(r, r2, r.row, last'.column, last'.value)
                /\ r2.rows[r.row + 1][last'.column + 1] = last'.value
                /\ r2.row = r.row /\ r2.col = r.col
                /\ [r2 EXCEPT !.rows = r.rows] = r
           /\ (last'.op = "open_field_editor" /\ inside) =>
                /\ last'.calls = << <<"open_field_data_editor", r.row, last'.column>> >>
                /\ r2 = r
           /\ ~inside => (r2 = r /\ last'.calls = <<>>)]_vars

\* The user's edit of a text entry has been written to the edited row's cell
\* of the entry's column.
C5_Witness ==
  /\ RanLive("edit")
  /\ last.calls # <<>>
  /\ recordsets[_rset].row >= 1
  /\ recordsets[_rset].rows[recordsets[_rset].row + 1][last.column + 1] = last.value
  /\ recordsets[_rset].rows[1][last.column + 1] # last.value

\* The variant the priority table gives a column.
TableKind(type, display_size, full_type) ==
  IF type = "VARCHAR" /\ display_size > 40 THEN "Text"
  ELSE IF type = "VARCHAR" THEN "String"
  ELSE IF type = "TEXT" THEN "Text"
  ELSE IF type = "BLOB" THEN "Blob"
  ELSE IF type = "ENUM" /\ Len(full_type) > 0 THEN "Selector"
  ELSE IF type = "SET" /\ Len(full_type) > 0 THEN "Set"
  ELSE "String"

\* C3: for every type name, display size and full type string,
\* FieldView::create returns one FieldView, never NULL, of the variant the
\* priority table gives; and the one view init_for_resultset holds for the
\* column is of such a variant.
C3_CreateFollowsTable ==
  LET info == storage["rsA"][1]
      full_types == {<<>>, info.column_type}
  IN /\ \A ft \in full_types :
          FieldView_create(info, ft).kind = TableKind(info.type, info.display_size, ft)
     /\ last.op = "init_for_resultset" =>
          /\ Len(_fields) = 1
          /\ \E ft \in full_types :
               _fields[1].kind = TableKind(info.type, info.display_size, ft)

\* init_for_resultset has built a multi-line text box for a VARCHAR(41)
\* column.
C3_Witness ==
  /\ last.op = "init_for_resultset"
  /\ storage["rsA"][1].type = "VARCHAR" /\ storage["rsA"][1].display_size = 41
  /\ Len(_fields) = 1 /\ _fields[1].kind = "Text"

\* The server is older than 5.5.
Before55 == rdbms_version[1] < 5 \/ (rdbms_version[1] = 5 /\ rdbms_version[2] < 5)

\* C6: in init_for_resultset, for an ENUM or SET column: on a server older
\* than 5.5 no metadata query is issued; when the query throws or returns no
\* row get_full_column_type returns "" and lets no exception out; and in all
\* these cases, as when the column has no table, init runs to its end and
\* the column gets the single-line text entry.
C6_EnumSetFallback ==
  (last.op = "init_for_resultset" /\ storage["rsA"][1].type \in {"ENUM", "SET"}) =>
    LET info == storage["rsA"][1]
        outcome == last.value[1]
        failed == outcome \in {"throws", "null", "norow"}
    IN /\ Before55 => ~(\E k \in DOMAIN last.calls : last.calls[k][1] = "executeQuery")
       /\ failed =>
            /\ get_full_column_type(rdbms_version, info, outcome).result = <<>>
            /\ ~get_full_column_type(rdbms_version, info, outcome).raised
       /\ (Before55 \/ failed \/ info.table = <<>>) =>
            /\ last.completed
            /\ Len(_fields) = 1
            /\ _fields[1].kind = "String"

\* The metadata query for an ENUM column of a table was issued on a 5.5+
\* server and threw; the column got a text entry.
C6_Witness ==
  /\ last.op = "init_for_resultset"
  /\ storage["rsA"][1].type = "ENUM" /\ storage["rsA"][1].table # <<>>
  /\ storage["rsA"][1].column_type # <<>>
  /\ ~Before55
  /\ last.value[1] = "throws"
  /\ \E k \in DOMAIN last.calls : last.calls[k][1] = "executeQuery"
  /\ Len(_fields) = 1 /\ _fields[1].kind = "String"

\* C7: after any sequence of init_for_resultset calls, with a live recordset
\* bound, the panel holds as many FieldViews as that recordset has columns,
\* and the view at position i is bound to column i.
C7_FieldsMatchColumns ==
  Lock(_rset) # None =>
    /\ Len(_fields) = Len(storage[_rset])
    /\ \A i \in DOMAIN _fields : _fields[i].column = i - 1

\* The labels of the checked rows, in list order.
CheckedLabels(tree) ==
  LET checked == SelectSeq(tree, LAMBDA node : node.checked)
  IN [i \in DOMAIN checked |-> checked[i].label]

\* C8: for a checklist over any item list and any subset S of the items,
\* after set_value of the members of S comma-joined in any order, changed()
\* hands the callback the checked labels comma-joined in list order, a
\* string whose comma-separated parts are exactly S (the empty string when S
\* is empty).
C8_SetRoundTrip ==
  (last.op = "changed" /\ Len(_fields) = 1 /\ _fields[1].kind = "Set") =>
    LET tree == _fields[1].tree
        items == [i \in DOMAIN tree |-> tree[i].label]
    IN \A p \in Picks(items) :
         LET S == {items[p[a]] : a \in DOMAIN p}
             value == Join([a \in DOMAIN p |-> items[p[a]]], <<",">>)
         IN tree = SetFieldView_set_value(tree, value) =>
              /\ last.value = Join(CheckedLabels(tree), <<",">>)
              /\ S = {} => last.value = <<>>
              /\ S # {} => Range(split_token_list(last.value)) = S

\* The text, position label and toolbar state the panel shows are those of
\* the edited row of r.
ShowsEditedRow(r) ==
  /\ \A i \in DOMAIN _fields :
       LET there == HasCell(r, r.row, i - 1)
           cell == r.rows[r.row + 1][i]
       IN IF _fields[i].kind = "Blob"
          THEN _fields[i].text = IF there /\ cell # NullCell THEN <<"B", "L", "O", "B">>
                                 ELSE <<"N", "U", "L", "L">>
          ELSE _fields[i].text = IF there /\ cell # NullCell THEN cell ELSE <<>>
  /\ _label_item = <<r.row + 1, Len(r.rows)>>
  /\ _tbar.first = (r.row > 0) /\ _tbar.back = (r.row > 0)
  /\ _tbar.next = (r.row < Len(r.rows) - 1) /\ _tbar.last = (r.row < Len(r.rows) - 1)

\* C9 as stated: whenever navigate has run for a toolbar item on a live
\* recordset, every FieldView and the position label show the edited row,
\* first and back are enabled exactly when the edited row > 0, next and last
\* exactly when it is < rowCount-1.
C9_AlwaysRedisplayed ==
  RanLive("navigate") => ShowsEditedRow(recordsets[_rset])

\* C9 amended: the same, for a navigate that starts with an edited row >= 0
\* (with no edited row navigate returns before display_record).
C9_RedisplayedFromRow ==
  [][(/\ last'.op = "navigate"
      /\ Lock(_rset) # None
      /\ recordsets[_rset].row >= 0)
     => /\ ShowsEditedRow(recordsets[_rset])'
        /\ last'.calls[Len(last'.calls)] = <<"display_record">>]_vars

\* delete has removed a row of a live recordset and the panel shows the
\* edited row that results.
C9_Witness ==
  /\ RanLive("navigate") /\ last.name = "delete"
  /\ last.calls = << <<"delete_node", recordsets[_rset].row>>, <<"display_record">> >>
  /\ recordsets[_rset].rows_deleted
  /\ count(recordsets[_rset]) >= 1
  /\ _label_item = <<recordsets[_rset].row + 1, count(recordsets[_rset])>>
  /\ _fields # <<>>

\* C10: first, back, next and last, started with an edited row >= 0, call
\* set_edited_field(new row, the edited column as it was), then the
\* update_edited_field hook once if it is set, then display_record, in this
\* order; the edited column, the row count and every cell stay as they were;
\* delete does not call the hook.
C10_NavigateOrder ==
  [][(/\ last'.op = "navigate"
      /\ Lock(_rset) # None
      /\ recordsets[_rset].row >= 0)
     => LET r == recordsets[_rset]
            r2 == recordsets'[_rset]
        IN /\ last'.name \in MoveActions =>
                /\ last'.calls =
                     IF r.hook
                     THEN << <<"set_edited_field", r2.row, r.col>>,
                             <<"update_edited_field">>, <<"display_record">> >>
                     ELSE << <<"set_edited_field", r2.row, r.col>>, <<"display_record">> >>
                /\ r2.col = r.col
                /\ r2.rows = r.rows
           /\ last'.name = "delete" =>
                ~(\E k \in DOMAIN last'.calls : last'.calls[k] = <<"update_edited_field">>)]_vars

\* back has run on a recordset with the hook set and column 1 edited: three
\* calls were made and column 1 is still the edited one.
C10_Witness ==
  /\ RanLive("navigate") /\ last.name = "back"
  /\ recordsets[_rset].hook
  /\ recordsets[_rset].col = 1
  /\ recordsets[_rset].row = 1
  /\ Len(last.calls) = 3

\* C11: once the panel has been re-initialized with a different recordset,
\* a refresh notification emitted by the recordset bound before never
\* invokes display_record on the panel: the subscription made by the earlier
\* init_for_resultset has been removed.
C11_NoStaleRefresh ==
  (last.op = "refresh_ui" /\ last.name # _rset) =>
    ~(\E k \in DOMAIN last.calls : last.calls[k] = <<"display_record">>)

====
